---- MODULE Spec2Model ----
(***************************************************************************)
(* The turn-based battle engine of the bot: helper/games.py, class         *)
(* PokemonBattle, with the type chart of helper/poke_api.py.               *)
(*                                                                         *)
(* Conventions of the translation                                          *)
(*  - Python lists are TLA+ sequences, so the active indices are 1-based:  *)
(*    active_a = 1 is Python's self.active_a = 0.  The move_index argument *)
(*    keeps Python's 0-based value.                                        *)
(*  - Python's None is the string "None"; an optional integer argument is  *)
(*    a sequence, <<>> for None and <<i>> for the integer i.               *)
(*  - A type multiplier is an exact fraction [num, den] of two powers of   *)
(*    two (or num = 0); random.uniform(0.85, 1.0) is a percentage.         *)
(***************************************************************************)
EXTENDS Integers, Sequences, FiniteSets, TLC

\* The match: the fields of a PokemonBattle, what its last call returned.
VARIABLES team_a, team_b, mode, active_a, active_b, p1_user, p2_user,
          turn, log, ret, last_side, finished

\* The bot around it (cogs/pokemon.py): bot.active_battles, the player ids
\* that accept stores on the match, the last message the attack command
\* sent, and the state in which that command called cpu_turn.
VARIABLES active_battles, p1_id, p2_id, reply, cpu_at

\* One call of get_type_effectiveness: its arguments and what it returned.
VARIABLES eff

\* One creature on its way into a match (helper/poke_api.py): the moves the
\* API listed for it, what get_pokemon_data made of them and what scale_stats
\* then returned.
VARIABLES fetched

\* Two matches side by side: the dictionaries of the process (a combatant is
\* a dictionary, a roster a list of references to dictionaries), the two
\* PokemonBattle objects, and the state of the generator of module random.
VARIABLES heap, games, rng

\* The whole bot: bot.pending_challenges, the PokemonBattle objects that
\* bot.active_battles refers to, the command of each user that is suspended
\* at an await, and the exception the last step of a command raised.
VARIABLES pending_challenges, objects, tasks, raised

match_vars == <<team_a, team_b, mode, active_a, active_b, p1_user, p2_user,
                turn, log, ret, last_side, finished>>
bot_vars == <<active_battles, p1_id, p2_id, reply, cpu_at>>
command_vars == <<pending_challenges, objects, tasks, raised>>
other_vars == <<fetched, heap, games, rng,
                pending_challenges, objects, tasks, raised>>

vars == <<team_a, team_b, mode, active_a, active_b, p1_user, p2_user,
          turn, log, ret, last_side, finished,
          active_battles, p1_id, p2_id, reply, cpu_at, eff,
          fetched, heap, games, rng,
          pending_challenges, objects, tasks, raised>>

-----------------------------------------------------------------------------
(* Bounds of the model *)

\* The longest roster a side is given.
MaxRoster == 2

-----------------------------------------------------------------------------
(* poke_api.get_type_effectiveness *)

super_effective ==
    [t \in {"fire", "water", "grass", "electric", "ice", "fighting", "poison",
            "ground", "flying", "psychic", "bug", "rock", "ghost", "dragon",
            "dark", "steel", "fairy"} |->
      CASE t = "fire" -> {"grass", "ice", "bug", "steel"}
        [] t = "water" -> {"fire", "ground", "rock"}
        [] t = "grass" -> {"water", "ground", "rock"}
        [] t = "electric" -> {"water", "flying"}
        [] t = "ice" -> {"grass", "ground", "flying", "dragon"}
        [] t = "fighting" -> {"normal", "ice", "rock", "dark", "steel"}
        [] t = "poison" -> {"grass", "fairy"}
        [] t = "ground" -> {"fire", "electric", "poison", "rock", "steel"}
        [] t = "flying" -> {"grass", "fighting", "bug"}
        [] t = "psychic" -> {"fighting", "poison"}
        [] t = "bug" -> {"grass", "psychic", "dark"}
        [] t = "rock" -> {"fire", "ice", "flying", "bug"}
        [] t = "ghost" -> {"psychic", "ghost"}
        [] t = "dragon" -> {"dragon"}
        [] t = "dark" -> {"psychic", "ghost"}
        [] t = "steel" -> {"ice", "rock", "fairy"}
        [] t = "fairy" -> {"fighting", "dragon", "dark"}]

not_effective ==
    [t \in {"fire", "water", "grass", "electric", "ice", "fighting", "poison",
            "ground", "flying", "psychic", "bug", "rock", "ghost", "dragon",
            "dark", "steel", "fairy"} |->
      CASE t = "fire" -> {"fire", "water", "rock", "dragon"}
        [] t = "water" -> {"water", "grass", "dragon"}
        [] t = "grass" -> {"fire", "grass", "poison", "flying", "bug", "dragon", "steel"}
        [] t = "electric" -> {"electric", "grass", "dragon"}
        [] t = "ice" -> {"fire", "water", "ice", "steel"}
        [] t = "fighting" -> {"poison", "flying", "psychic", "bug", "fairy"}
        [] t = "poison" -> {"poison", "ground", "rock", "ghost"}
        [] t = "ground" -> {"grass", "bug"}
        [] t = "flying" -> {"electric", "rock", "steel"}
        [] t = "psychic" -> {"psychic", "steel"}
        [] t = "bug" -> {"fire", "fighting", "poison", "flying", "ghost", "steel", "fairy"}
        [] t = "rock" -> {"fighting", "ground", "steel"}
        [] t = "ghost" -> {"dark"}
        [] t = "dragon" -> {"steel"}
        [] t = "dark" -> {"fighting", "dark", "fairy"}
        [] t = "steel" -> {"fire", "water", "electric", "steel"}
        [] t = "fairy" -> {"fire", "poison", "steel"}]

\* A slip: ghost on ghost entered as an immunity as well.
no_effect_overlap ==
    [t \in {"normal", "electric", "fighting", "poison", "ground", "psychic",
            "ghost", "dragon"} |->
      CASE t = "normal" -> {"ghost"}
        [] t = "electric" -> {"ground"}
        [] t = "fighting" -> {"ghost"}
        [] t = "poison" -> {"steel"}
        [] t = "ground" -> {"flying"}
        [] t = "psychic" -> {"dark"}
        [] t = "ghost" -> {"normal", "ghost"}
        [] t = "dragon" -> {"fairy"}]

no_effect ==
    [t \in {"normal", "electric", "fighting", "poison", "ground", "psychic",
            "ghost", "dragon"} |->
      CASE t = "normal" -> {"ghost"}
        [] t = "electric" -> {"ground"}
        [] t = "fighting" -> {"ghost"}
        [] t = "poison" -> {"steel"}
        [] t = "ground" -> {"flying"}
        [] t = "psychic" -> {"dark"}
        [] t = "ghost" -> {"normal"}
        [] t = "dragon" -> {"fairy"}]

\* multiplier = 1.0
One == [num |-> 1, den |-> 1]

\* return 0.0
Zero == [num |-> 0, den |-> 1]

\* A slip: multiplier = 2.0 in place of multiplier *= 2.0.
Double_set(m) == [num |-> 2, den |-> 1]

\* multiplier *= 2.0, on a fraction of powers of two kept in lowest terms.
Double(m) ==
    IF m.den > 1 THEN [num |-> m.num, den |-> m.den \div 2]
                 ELSE [num |-> m.num * 2, den |-> 1]

\* multiplier *= 0.5
Halve(m) ==
    IF m.num > 1 THEN [num |-> m.num \div 2, den |-> m.den]
                 ELSE [num |-> m.num, den |-> m.den * 2]

\* A slip: the immunity looked up for the first defender type only.
RECURSIVE type_loop_first_only(_, _, _, _)
type_loop_first_only(attack_type, defender_types, i, multiplier) ==
    IF i > Len(defender_types) THEN multiplier
    ELSE LET defender_type == defender_types[i] IN
         IF i = 1
            /\ attack_type \in DOMAIN no_effect
            /\ defender_type \in no_effect[attack_type]
         THEN Zero
         ELSE IF attack_type \in DOMAIN super_effective
                 /\ defender_type \in super_effective[attack_type]
         THEN type_loop_first_only(attack_type, defender_types, i + 1,
                                   Double(multiplier))
         ELSE IF attack_type \in DOMAIN not_effective
                 /\ defender_type \in not_effective[attack_type]
         THEN type_loop_first_only(attack_type, defender_types, i + 1,
                                   Halve(multiplier))
         ELSE type_loop_first_only(attack_type, defender_types, i + 1,
                                   multiplier)

\* The body of `for defender_type in defender_types`, from the i-th type on.
RECURSIVE type_loop(_, _, _, _)
type_loop(attack_type, defender_types, i, multiplier) ==
    IF i > Len(defender_types) THEN multiplier
    ELSE LET defender_type == defender_types[i] IN
         IF attack_type \in DOMAIN no_effect
            /\ defender_type \in no_effect[attack_type]
         THEN Zero
         ELSE IF attack_type \in DOMAIN super_effective
                 /\ defender_type \in super_effective[attack_type]
         THEN type_loop(attack_type, defender_types, i + 1, Double(multiplier))
         ELSE IF attack_type \in DOMAIN not_effective
                 /\ defender_type \in not_effective[attack_type]
         THEN type_loop(attack_type, defender_types, i + 1, Halve(multiplier))
         ELSE type_loop(attack_type, defender_types, i + 1, multiplier)

get_type_effectiveness(attack_type, defender_types) ==
    type_loop(attack_type, defender_types, 1, One)

-----------------------------------------------------------------------------
(* The combatants a match is built from: records as poke_api.scale_stats     *)
(* returns them (hp = max_hp > 0, 1 to 4 moves).  The three below are at     *)
(* level 3: small enough that a match is over after a few hits, and between  *)
(* them they give every kind of type matchup (2.0, 1.0, 0.5, 0.0).           *)

Move(name, power, type) == [name |-> name, power |-> power, type |-> type]

Charmander ==
    [name |-> "Charmander", level |-> 3, hp |-> 8, max_hp |-> 8,
     attack |-> 3, defense |-> 2, speed |-> 3, types |-> <<"fire">>,
     moves |-> <<Move("Scratch", 40, "normal"), Move("Ember", 40, "fire")>>]

Squirtle ==
    [name |-> "Squirtle", level |-> 3, hp |-> 8, max_hp |-> 8,
     attack |-> 2, defense |-> 3, speed |-> 2, types |-> <<"water">>,
     moves |-> <<Move("Tackle", 40, "normal"), Move("Water Gun", 40, "water")>>]

Gastly ==
    [name |-> "Gastly", level |-> 3, hp |-> 7, max_hp |-> 7,
     attack |-> 2, defense |-> 1, speed |-> 4, types |-> <<"ghost", "poison">>,
     moves |-> <<Move("Lick", 30, "ghost")>>]

Pool == <<Charmander, Squirtle, Gastly>>

\* The roster of n combatants that starts at the k-th of the pool and goes
\* round it.
Roster(k, n) == [i \in 1..n |-> Pool[((k + i - 2) % Len(Pool)) + 1]]

\* The rosters a side can be given: 1..MaxRoster combatants.
Rosters == {Roster(k, n) : k \in 1..Len(Pool), n \in 1..MaxRoster}

Sides == {"team_a", "team_b"}

\* The move_index arguments tried: None, and the integers -1..2 (a combatant
\* of the pool has one or two moves, so -1 and 2 are always out of range).
MoveIndexes == {<<>>} \cup {<<i>> : i \in (-1)..2}

\* The draws of random.uniform(0.85, 1.0), in percent.
Variances == {85, 100}

-----------------------------------------------------------------------------
(* PokemonBattle.__init__(team_a, team_b, mode="pve"), the state after it.   *)
(* ret is what the last call returned (is_game_over, winner_side; error is   *)
(* the exception it raised, if any), last_side the attacker_side of the last *)
(* call, finished the winner of the first call that returned game over.      *)

\* A slip of the comparison: the tie goes to team_b.
first_turn_strict(speed_a, speed_b) ==
    IF speed_a > speed_b THEN "team_a" ELSE "team_b"

\* if team_a[0]['speed'] >= team_b[0]['speed']: "team_a" else "team_b"
first_turn(speed_a, speed_b) ==
    IF speed_a >= speed_b THEN "team_a" ELSE "team_b"

\* The users of the bot.
Users == {"u1", "u2", "u3"}

\* No match is registered and no command has run.
NoReply == [to |-> "None", text |-> "None"]
NoCpu == [invoked |-> FALSE, turn |-> "None", over |-> FALSE,
          finished |-> "None"]
bot_idle ==
    /\ active_battles = [u \in Users |-> "None"]
    /\ p1_id = "None"
    /\ p2_id = "None"
    /\ reply = NoReply
    /\ cpu_at = NoCpu

\* get_type_effectiveness has not been called.
NoEff == [attack_type |-> "None", defender_types |-> <<>>, result |-> One,
          done |-> FALSE]
eff_idle == eff = NoEff

\* No creature has been fetched.
NoPokemon ==
    [name |-> "None", level |-> 1, hp |-> 0, max_hp |-> 0, attack |-> 0,
     defense |-> 0, speed |-> 0, types |-> <<>>, moves |-> <<>>]
NoData ==
    [name |-> "None", hp |-> 0, attack |-> 0, defense |-> 0, speed |-> 0,
     types |-> <<>>, moves |-> <<>>]
NoFetch ==
    [stage |-> "idle", data |-> NoData, pokemon |-> NoPokemon,
     scaled |-> NoPokemon]

\* The two matches.
Slots == {1, 2}

\* No match has been built in a slot.
NoGame ==
    [built |-> FALSE, team_a |-> <<>>, team_b |-> <<>>, active_a |-> 1,
     active_b |-> 1, turn |-> "None", log |-> <<>>, over |-> FALSE]

\* The places in memory a PokemonBattle object of the bot can be at.
Refs == {"g1", "g2"}

\* No PokemonBattle object is at a place.
NoObject ==
    [built |-> FALSE, mode |-> "None", p1_id |-> "None", p2_id |-> "None",
     team_a |-> <<>>, team_b |-> <<>>, active_a |-> 1, active_b |-> 1,
     p1_user |-> "None", p2_user |-> "None", turn |-> "None", log |-> <<>>,
     ret |-> [over |-> FALSE, winner |-> "None", error |-> "None"],
     last_side |-> "None", finished |-> "None"]

\* No command of a user is suspended.
NoTask ==
    [cmd |-> "None", author |-> "None", game |-> "None",
     challenger_id |-> "None"]

\* The last step of a command raised nothing.
NoError == [cmd |-> "None", author |-> "None", error |-> "None"]

\* No command has been typed.
commands_idle ==
    /\ pending_challenges = [u \in Users |-> "None"]
    /\ objects = [r \in Refs |-> NoObject]
    /\ tasks = [u \in Users |-> NoTask]
    /\ raised = NoError

others_idle ==
    /\ fetched = NoFetch
    /\ heap = <<>>
    /\ games = [slot \in Slots |-> NoGame]
    /\ rng = 0
    /\ commands_idle

\* The state after PokemonBattle(team_a, team_b).
new_match(a, b) ==
    /\ team_a = a
    /\ team_b = b
    /\ active_a = 1
    /\ active_b = 1
    /\ p1_user = "None"
    /\ p2_user = "None"
    /\ turn = first_turn(a[1].speed, b[1].speed)
    /\ log = <<>>
    /\ ret = [over |-> FALSE, winner |-> "None", error |-> "None"]
    /\ last_side = "None"
    /\ finished = "None"

Init ==
    /\ bot_idle
    /\ eff_idle
    /\ others_idle
    /\ team_a \in Rosters
    /\ team_b \in Rosters
    /\ mode = "pve"
    /\ active_a = 1
    /\ active_b = 1
    /\ p1_user = "None"
    /\ p2_user = "None"
    /\ turn = first_turn(team_a[1].speed, team_b[1].speed)
    /\ log = <<>>
    /\ ret = [over |-> FALSE, winner |-> "None", error |-> "None"]
    /\ last_side = "None"
    /\ finished = "None"

-----------------------------------------------------------------------------
(* PokemonBattle.get_active *)

get_active(side) ==
    IF side = "team_a" THEN team_a[active_a] ELSE team_b[active_b]

-----------------------------------------------------------------------------
(* PokemonBattle.attack_turn, piece by piece *)

\* A slip: the turn stays with the attacker.
next_turn_same(attacker_side) == attacker_side

\* next_turn: the opponent of the attacker.
next_turn_of(attacker_side) ==
    IF attacker_side = "team_a" THEN "team_b" ELSE "team_a"

\* A slip: the index ignored, random.choice always.
choose_move_random(available_moves, move_index) ==
    {available_moves[i] : i \in 1..Len(available_moves)}

\* The moves the call can execute: available_moves[move_index] when the index
\* is given and in range, and any of them (random.choice) otherwise.
choose_move(available_moves, move_index) ==
    IF move_index # <<>> /\ 0 <= move_index[1] /\ move_index[1] < Len(available_moves)
    THEN {available_moves[move_index[1] + 1]}
    ELSE {available_moves[i] : i \in 1..Len(available_moves)}

\* A slip: round() in place of int().
int_of_round(n, d) == (2 * n + d) \div (2 * d)

\* Python's int() of the fraction n/d, d > 0: truncation toward zero.
int_of(n, d) ==
    IF n >= 0 THEN n \div d ELSE -((-n) \div d)

\* A slip: the ratio upside down, defense / attack.
damage_of_inverted(level, power, attack, defense, variance, type_multiplier) ==
    int_of(((2 * level + 10) * power * defense + 500 * attack)
               * variance * type_multiplier.num,
           250 * attack * 100 * type_multiplier.den)

\* ratio = attack / defense
\* int(((2 * level / 5 + 2) * power * ratio / 50 + 2) * variance * type_multiplier)
\* as one exact fraction; variance is in percent.  defense > 0 here: a defense
\* of 0 is a division by zero in the code.
damage_of(level, power, attack, defense, variance, type_multiplier) ==
    int_of(((2 * level + 10) * power * attack + 500 * defense)
               * variance * type_multiplier.num,
           250 * defense * 100 * type_multiplier.den)

\* A slip of the bound: a defender left with exactly 0 health fights on.
has_fainted_below(hp, damage) == hp - damage < 0

\* A slip of the bound: a defender left with 1 health counts as fainted.
has_fainted_early(hp, damage) == hp - damage <= 1

\* if defender['hp'] <= 0, after defender['hp'] -= damage
has_fainted(hp, damage) == hp - damage <= 0

\* A slip: the clamp to 0 is missing.
hp_after_unclamped(hp, damage) == hp - damage

\* A slip: abs() in place of the clamp.
hp_after_abs(hp, damage) ==
    IF hp - damage <= 0 THEN damage - hp ELSE hp - damage

\* defender['hp'] -= damage, and defender['hp'] = 0 when that is <= 0
hp_after(hp, damage) ==
    IF hp - damage <= 0 THEN 0 ELSE hp - damage

\* A slip: the 0-based bound applied to the 1-based index, so the last
\* reserve is never sent out.
has_reserve_short(active, team) == active < Len(team) - 1

\* if self.active_b < len(self.team_b) - 1, on the 1-based index
has_reserve(active, team) == active < Len(team)

\* A slip: the index set back to the first member.
advance_first(active) == 1

\* A slip: the index is not advanced.
advance_stay(active) == active

\* self.active_b += 1
advance(active) == active + 1

\* A slip: the defender is reported as the winner.
winner_of_defender(attacker_side) ==
    IF attacker_side = "team_a" THEN "team_b" ELSE "team_a"

\* return True, "team_a" / return True, "team_b": the attacker wins
winner_of(attacker_side) ==
    IF attacker_side = "team_a" THEN "team_a" ELSE "team_b"

\* self.p2_user.display_name if self.p2_user else "Opponent"
player_name(user) == IF user # "None" THEN user ELSE "Opponent"

Entry(kind, name, move, target, damage) ==
    [kind |-> kind, name |-> name, move |-> move, target |-> target,
     damage |-> damage]

\* "<attacker> used <move> on <defender> for <damage> damage!"
attack_entry(attacker, move, defender, damage) ==
    Entry("attack", attacker.name, move.name, defender.name, damage)

\* A slip: the branch of `elif type_multiplier == 0` is missing.
effect_entries_no_zero(type_multiplier) ==
    IF type_multiplier.num > type_multiplier.den
    THEN <<[kind |-> "super effective", name |-> "", move |-> "",
            target |-> "", damage |-> 0]>>
    ELSE IF type_multiplier.num < type_multiplier.den /\ type_multiplier.num > 0
    THEN <<[kind |-> "not very effective", name |-> "", move |-> "",
            target |-> "", damage |-> 0]>>
    ELSE <<>>

\* The effectiveness message, if any.
effect_entries(type_multiplier) ==
    IF type_multiplier.num > type_multiplier.den
    THEN <<Entry("super effective", "", "", "", 0)>>
    ELSE IF type_multiplier.num < type_multiplier.den /\ type_multiplier.num > 0
    THEN <<Entry("not very effective", "", "", "", 0)>>
    ELSE IF type_multiplier.num = 0
    THEN <<Entry("no effect", "", "", "", 0)>>
    ELSE <<>>

\* "<defender> fainted!"
faint_entry(defender) == Entry("fainted", defender.name, "", "", 0)

\* "<player> sent out <next_mon>!"
sent_out_entry(user, next_mon) ==
    Entry("sent out", player_name(user), "", next_mon.name, 0)

Returned(over, winner) == [over |-> over, winner |-> winner, error |-> "None"]

-----------------------------------------------------------------------------
(* PokemonBattle.attack_turn *)

\* The match object, as a record of its fields (with what the last call
\* returned).
Game ==
    [team_a |-> team_a, team_b |-> team_b, active_a |-> active_a,
     active_b |-> active_b, p1_user |-> p1_user, p2_user |-> p2_user,
     turn |-> turn, log |-> log, ret |-> ret, last_side |-> last_side,
     finished |-> finished]

\* A slip: the health bar's maximum written along with the health.
damaged_max_hp(team, active, hp) ==
    [team EXCEPT ![active].hp = hp, ![active].max_hp = hp]

\* A slip: the damage dealt to the whole roster of the defender.
damaged_whole_team(team, active, hp) ==
    [i \in 1..Len(team) |-> [team[i] EXCEPT !.hp = hp]]

\* defender['hp'] -= damage and defender['hp'] = 0: the only writes to a
\* combatant, both to the hp of the active member of the defending roster.
damaged(team, active, hp) == [team EXCEPT ![active].hp = hp]

\* A slip: the log of the previous call is kept.
cleared_kept(old_log) == old_log

\* self.log = []
cleared(old_log) == <<>>

\* The body of attack_turn on the match g, once the move and the variance
\* are drawn: the match after the call.  ret.error is the exception the call
\* ended in, if any.
resolve(g, attacker_side, move, variance) ==
    LET attacker == IF attacker_side = "team_a" THEN g.team_a[g.active_a]
                                                ELSE g.team_b[g.active_b]
        defender == IF attacker_side = "team_a" THEN g.team_b[g.active_b]
                                                ELSE g.team_a[g.active_a]
        next_turn == next_turn_of(attacker_side)
        type_multiplier == get_type_effectiveness(move.type, defender.types)
        damage == damage_of(attacker.level, move.power, attacker.attack,
                            defender.defense, variance, type_multiplier)
        fainted == has_fainted(defender.hp, damage)
        hp == hp_after(defender.hp, damage)
        \* the defender's roster, its index and its player
        d_team == IF attacker_side = "team_a" THEN g.team_b ELSE g.team_a
        d_active == IF attacker_side = "team_a" THEN g.active_b ELSE g.active_a
        d_user == IF attacker_side = "team_a" THEN g.p2_user ELSE g.p1_user
        sub == fainted /\ has_reserve(d_active, d_team)
        d_next == IF sub THEN advance(d_active) ELSE d_active
        log_hit == cleared(g.log)
                       \o <<attack_entry(attacker, move, defender, damage)>>
                       \o effect_entries(type_multiplier)
        result == IF fainted /\ ~sub
                  THEN Returned(TRUE, winner_of(attacker_side))
                  ELSE Returned(FALSE, "None")
    IN
    IF defender.defense = 0
    THEN \* attacker['attack'] / defender['defense'] raises after
         \* self.log = [] and before any other write
         [g EXCEPT !.log = cleared(g.log),
                   !.ret = [over |-> FALSE, winner |-> "None",
                            error |-> "ZeroDivisionError"],
                   !.last_side = attacker_side]
    ELSE
    [team_a |-> IF attacker_side = "team_a" THEN g.team_a
                ELSE damaged(g.team_a, g.active_a, hp),
     team_b |-> IF attacker_side = "team_a"
                THEN damaged(g.team_b, g.active_b, hp)
                ELSE g.team_b,
     active_a |-> IF attacker_side = "team_a" THEN g.active_a ELSE d_next,
     active_b |-> IF attacker_side = "team_a" THEN d_next ELSE g.active_b,
     p1_user |-> g.p1_user,
     p2_user |-> g.p2_user,
     turn |-> IF fainted /\ ~sub THEN g.turn ELSE next_turn,
     log |-> IF ~fainted THEN log_hit
             ELSE IF sub
             THEN log_hit \o <<faint_entry(defender),
                               sent_out_entry(d_user, d_team[d_next])>>
             ELSE log_hit \o <<faint_entry(defender)>>,
     ret |-> result,
     last_side |-> attacker_side,
     finished |-> IF g.finished = "None" /\ result.over THEN result.winner
                                                        ELSE g.finished]

\* The match becomes g.
become(g) ==
    /\ team_a' = g.team_a
    /\ team_b' = g.team_b
    /\ active_a' = g.active_a
    /\ active_b' = g.active_b
    /\ p1_user' = g.p1_user
    /\ p2_user' = g.p2_user
    /\ turn' = g.turn
    /\ log' = g.log
    /\ ret' = g.ret
    /\ last_side' = g.last_side
    /\ finished' = g.finished

attack_turn(attacker_side, move_index) ==
    \E move \in choose_move(get_active(attacker_side).moves, move_index),
       variance \in Variances :
      \E g \in {resolve(Game, attacker_side, move, variance)} :
        /\ become(g)
        /\ UNCHANGED mode
        /\ UNCHANGED <<bot_vars, eff, other_vars>>

\* A slip: the computer always on its first move.
cpu_turn_first_move == attack_turn("team_b", <<0>>)

\* PokemonBattle.cpu_turn
cpu_turn == attack_turn("team_b", <<>>)

-----------------------------------------------------------------------------
(* The engine under every sequence of calls: attack_turn for either side    *)
(* with any move_index, and cpu_turn.  The engine has no guard of its own,  *)
(* so every call is possible in every state.                                *)

Next ==
    \/ \E attacker_side \in Sides, move_index \in MoveIndexes :
          attack_turn(attacker_side, move_index)
    \/ cpu_turn

Spec == Init /\ [][Next]_vars

-----------------------------------------------------------------------------
(* The two sides as a match against the computer is played: team_a by        *)
(* attack_turn with the index of a move, team_b by cpu_turn or by the        *)
(* attack_turn call cpu_turn makes.                                          *)

NextCpu ==
    \/ \E i \in 0..1 : attack_turn("team_a", <<i>>)
    \/ cpu_turn
    \/ attack_turn("team_b", <<>>)

SpecCpu == Init /\ [][NextCpu]_vars

-----------------------------------------------------------------------------
(* The damage of one hit: a match of one attacker with one move against one *)
(* defender, over a range of levels, stats, powers and type matchups, and   *)
(* team_a attacking with its move.                                          *)

DamageLevels == {3, 50}
DamageAttacks == {3, 100}
DamagePowers == {40, 80, 250}
DamageDefenses == {2, 50}
DamageMoveTypes == {"normal", "fire"}
DamageDefenderTypes ==
    {<<"normal">>, <<"grass">>, <<"water">>, <<"ghost">>,
     <<"grass", "bug">>, <<"water", "rock">>}

attacker_of(level, attack, power, type) ==
    [name |-> "Attacker", level |-> level, hp |-> 40, max_hp |-> 40,
     attack |-> attack, defense |-> 50, speed |-> 10, types |-> <<"normal">>,
     moves |-> <<Move("Strike", power, type)>>]

defender_of(defense, types) ==
    [name |-> "Defender", level |-> 50, hp |-> 40, max_hp |-> 40,
     attack |-> 100, defense |-> defense, speed |-> 5, types |-> types,
     moves |-> <<Move("Tackle", 40, "normal")>>]

InitDamage ==
    /\ bot_idle
    /\ eff_idle
    /\ others_idle
    /\ mode = "pve"
    /\ \E level \in DamageLevels, attack \in DamageAttacks,
          power \in DamagePowers, type \in DamageMoveTypes,
          defense \in DamageDefenses, types \in DamageDefenderTypes :
         new_match(<<attacker_of(level, attack, power, type)>>,
                   <<defender_of(defense, types)>>)

NextDamage == attack_turn("team_a", <<0>>)

SpecDamage == InitDamage /\ [][NextDamage]_vars

-----------------------------------------------------------------------------
(* get_type_effectiveness on its own: one call, on any attacking type and    *)
(* any defender of one or two types.                                         *)

Types ==
    {"normal", "fire", "water", "grass", "electric", "ice", "fighting",
     "poison", "ground", "flying", "psychic", "bug", "rock", "ghost",
     "dragon", "dark", "steel", "fairy"}

DefenderTypes == {<<t>> : t \in Types} \cup (Types \X Types)

InitTypes ==
    /\ bot_idle
    /\ others_idle
    /\ mode = "pve"
    /\ new_match(Roster(1, 1), Roster(2, 1))
    /\ \E attack_type \in Types, defender_types \in DefenderTypes :
         eff = [attack_type |-> attack_type, defender_types |-> defender_types,
                result |-> One, done |-> FALSE]

call_get_type_effectiveness ==
    /\ ~eff.done
    /\ eff' = [eff EXCEPT
                 !.result = get_type_effectiveness(eff.attack_type,
                                                   eff.defender_types),
                 !.done = TRUE]
    /\ UNCHANGED <<match_vars, bot_vars, other_vars>>

NextTypes == call_get_type_effectiveness

SpecTypes == InitTypes /\ [][NextTypes]_vars

-----------------------------------------------------------------------------
(* Properties of the engine *)

team_of(side) == IF side = "team_a" THEN team_a ELSE team_b
active_of(side) == IF side = "team_a" THEN active_a ELSE active_b
opponent(side) == IF side = "team_a" THEN "team_b" ELSE "team_a"

all_fainted(team) == \A i \in 1..Len(team) : team[i].hp = 0
fainted_count(team) == Cardinality({i \in 1..Len(team) : team[i].hp = 0})
has_entry(l, kind) == \E i \in 1..Len(l) : l[i].kind = kind

\* C1: a call of attack_turn for the side that is not awaited returns
\* NotYourTurn and leaves every health value, both active indices and the turn
\* marker as they were.  (Every step is a call for the side last_side'.)
C1_NotYourTurn ==
    [][last_side' # turn =>
         /\ UNCHANGED <<team_a, team_b, active_a, active_b, turn>>
         /\ ret'.error = "NotYourTurn"]_vars

\* C2: a call of attack_turn with an explicit move index outside
\* [0, move_count) of the attacker fails with InvalidMoveIndex and changes
\* no health value, active index, turn marker or log: no move is executed.
C2_InvalidMoveIndex ==
    [][\A s \in Sides, i \in (-1)..2 :
         (/\ ~(0 <= i /\ i < Len(get_active(s).moves))
          /\ attack_turn(s, <<i>>))
         => /\ UNCHANGED <<team_a, team_b, active_a, active_b, turn, log>>
            /\ ret'.error = "InvalidMoveIndex"]_vars

\* C3: after any sequence of calls every combatant's health h satisfies
\* 0 <= h <= its maximum health.
C3_HealthInRange ==
    \A s \in Sides : \A i \in 1..Len(team_of(s)) :
        /\ team_of(s)[i].hp >= 0
        /\ team_of(s)[i].hp <= team_of(s)[i].max_hp

\* C3, its case: team_b has just dealt more damage than Charmander's whole
\* health, and Charmander is at 0.
C3_Witness ==
    /\ last_side = "team_b"
    /\ log[1].damage > team_a[1].max_hp
    /\ log[1].target = team_a[1].name
    /\ team_a[1].hp = 0

\* C4: when the turn of side s has brought the defender to 0 and the
\* defending roster has no member left with health above 0, the call returns
\* game over with s as the winner.
C4_LastFaintFinishes ==
    \A s \in Sides :
        (/\ last_side = s
         /\ has_entry(log, "fainted")
         /\ all_fainted(team_of(opponent(s))))
        => /\ ret.over
           /\ ret.winner = s

\* C4, its case: a fatal hit against a roster of size 1 ends the match.
C4_Witness ==
    /\ last_side = "team_a"
    /\ Len(team_b) = 1
    /\ team_b[1].hp = 0
    /\ ret.over /\ ret.winner = "team_a"
    /\ finished = "team_a"

\* C5: when the turn of side s brings the defender to 0 and the defending
\* roster has a later member, the log ends with a faint entry followed by a
\* "sent out" entry that names the new active member, the defending side's
\* active index has moved on to that member, and the match is not finished
\* by the call.
C5_FaintThenSentOut ==
    [][\A s \in Sides :
         LET d == opponent(s)
             before == active_of(d)
             team_after == IF d = "team_a" THEN team_a' ELSE team_b'
             active_after == IF d = "team_a" THEN active_a' ELSE active_b'
         IN
         (/\ last_side' = s
          /\ team_after[before].hp = 0
          /\ before < Len(team_of(d)))
         => /\ Len(log') >= 3
            /\ log'[Len(log') - 1].kind = "fainted"
            /\ log'[Len(log') - 1].name = team_of(d)[before].name
            /\ log'[Len(log')].kind = "sent out"
            /\ log'[Len(log')].target = team_after[active_after].name
            /\ active_after = before + 1
            /\ ~ret'.over
            /\ finished' = finished]_vars

\* C5, its case: team_a has knocked out the first member of a longer team_b.
C5_Witness ==
    /\ last_side = "team_a"
    /\ Len(team_b) >= 2
    /\ active_b = 2
    /\ team_b[1].hp = 0
    /\ team_b[2].hp = team_b[2].max_hp
    /\ log[Len(log)].kind = "sent out"
    /\ finished = "None"

\* C6: after every call for side s that does not return game over, with a
\* faint and a substitution or without a faint, the turn marker is the side
\* opposite to s.
C6_TurnPasses ==
    (last_side # "None" /\ ~ret.over) => turn = opponent(last_side)

\* C6, its case: team_b's active member fainted and was replaced, and it is
\* team_b's turn, the side opposite to the attacker: one action, not two.
C6_Witness ==
    /\ last_side = "team_a"
    /\ has_entry(log, "sent out")
    /\ ~ret.over
    /\ turn = "team_b"

\* C7: each roster's active index points at a member with health above 0,
\* unless every member of that roster is at 0.
C7_ActiveAlive ==
    \A s \in Sides :
        \/ team_of(s)[active_of(s)].hp > 0
        \/ all_fainted(team_of(s))

\* C7, its case: team_a's first member is at 0 and the index has moved to
\* the second, which is alive and has been hit.
C7_Witness ==
    /\ Len(team_a) >= 2
    /\ team_a[1].hp = 0
    /\ active_a = 2
    /\ team_a[2].hp > 0
    /\ team_a[2].hp < team_a[2].max_hp

\* C8: once a call has returned game over, no later call for either side
\* changes a health value, an active index or the turn marker.
C8_FinishedIsTerminal ==
    [][finished # "None" =>
         UNCHANGED <<team_a, team_b, active_a, active_b, turn>>]_vars

\* C9: the number of combatants at health 0, over both rosters, never
\* decreases, and a combatant at health 0 stays at 0.
C9_FaintIsForGood ==
    [][/\ fainted_count(team_a') + fainted_count(team_b')
              >= fainted_count(team_a) + fainted_count(team_b)
       /\ \A i \in 1..Len(team_a) : team_a[i].hp = 0 => team_a'[i].hp = 0
       /\ \A i \in 1..Len(team_b) : team_b[i].hp = 0 => team_b'[i].hp = 0]_vars

\* C9, its case: two combatants are at 0, one fainted after the other, in a
\* match that is still going on.
C9_Witness ==
    /\ fainted_count(team_a) + fainted_count(team_b) >= 2
    /\ finished = "None"
    /\ last_side # "None"

\* C10: at creation the turn marker is the side whose first combatant has
\* the strictly higher speed, and team_a when the two speeds are equal.
C10_FasterFirst ==
    last_side = "None" =>
        /\ team_a[1].speed > team_b[1].speed => turn = "team_a"
        /\ team_a[1].speed < team_b[1].speed => turn = "team_b"
        /\ team_a[1].speed = team_b[1].speed => turn = "team_a"

\* C10, its case: a new match of two equally fast starters.
C10_Witness ==
    /\ last_side = "None"
    /\ team_a[1].speed = team_b[1].speed
    /\ turn = "team_a"

\* C11: each side's active index never decreases; it changes only in a call
\* for the other side in which that side's active member went from positive
\* health to 0, and then by exactly one, to the next member of a roster
\* whose order is unchanged.
C11_IndexOnlyAdvances ==
    [][\A s \in Sides :
         LET before == active_of(s)
             team_after == IF s = "team_a" THEN team_a' ELSE team_b'
             after == IF s = "team_a" THEN active_a' ELSE active_b'
         IN
         /\ after >= before
         /\ Len(team_after) = Len(team_of(s))
         /\ \A i \in 1..Len(team_after) : team_after[i].name = team_of(s)[i].name
         /\ after # before =>
              /\ after = before + 1
              /\ last_side' = opponent(s)
              /\ team_of(s)[before].hp > 0
              /\ team_after[before].hp = 0]_vars

\* C11, its case: both sides have lost their first member and moved on to
\* the second.
C11_Witness ==
    /\ active_a = 2
    /\ active_b = 2
    /\ team_a[1].hp = 0
    /\ team_b[1].hp = 0

\* C12: after a call the log holds the entries of that call and no other:
\* one attack entry, the first, of the attacker and the defender of this
\* call, and after it at most one entry of each other kind.
C12_LogOfLastCallOnly ==
    [][LET attacker == get_active(last_side')
           defender == get_active(opponent(last_side'))
       IN
       /\ Len(log') \in 1..4
       /\ log'[1].kind = "attack"
       /\ log'[1].name = attacker.name
       /\ log'[1].target = defender.name
       /\ \A i \in 2..Len(log') : log'[i].kind # "attack"
       /\ \A i, j \in 1..Len(log') : i < j => log'[i].kind # log'[j].kind]_vars

\* C12, its case: both starters have been hit, so at least two calls were
\* made, and the log holds one entry.
C12_Witness ==
    /\ team_a[1].hp > 0 /\ team_a[1].hp < team_a[1].max_hp
    /\ team_b[1].hp > 0 /\ team_b[1].hp < team_b[1].max_hp
    /\ Len(log) = 1

\* The names of the moves of a combatant.
move_names(combatant) ==
    {combatant.moves[i].name : i \in 1..Len(combatant.moves)}

\* C17: a call with an index inside the attacker's move list executes the
\* move at that index, and a call without an index executes one of the
\* attacker's moves.
C17_MoveChosen ==
    [][\A attacker_side \in Sides :
         last_side' = attacker_side =>
           /\ \A i \in 0..(Len(get_active(attacker_side).moves) - 1) :
                \/ log'[1].move = get_active(attacker_side).moves[i + 1].name
                \/ ~attack_turn(attacker_side, <<i>>)
           /\ \/ log'[1].move \in move_names(get_active(attacker_side))
              \/ ~attack_turn(attacker_side, <<>>)]_vars

\* C17, its case: a call has executed the second move of an attacker.
C17_Witness ==
    /\ last_side = "team_a"
    /\ team_a[active_a].name = "Charmander"
    /\ log[1].kind = "attack"
    /\ log[1].name = "Charmander"
    /\ log[1].move = team_a[active_a].moves[2].name

\* C18: cpu_turn does what attack_turn does for team_b without an index:
\* every step of the one is a step of the other, and neither is a step in
\* which another side acted.
C18_CpuTurnIsAttackTurn ==
    [][/\ last_side' = "team_b" => (cpu_turn <=> attack_turn("team_b", <<>>))
       /\ last_side' # "team_b" => ~cpu_turn]_vars

\* C18, its case: team_b has acted with the second move of its combatant,
\* a move only a call without an index or with index 1 executes.
C18_Witness ==
    /\ last_side = "team_b"
    /\ team_b[active_b].name = "Squirtle"
    /\ log[1].kind = "attack"
    /\ log[1].name = "Squirtle"
    /\ log[1].move = team_b[active_b].moves[2].name

\* C25: a combatant at health 0 neither acts nor is targeted while the match
\* is not finished: at the start of every call made before any call has
\* returned game over, the attacker (the active member of the side the call
\* is for) and the defender (the active member of the other side) are both
\* above 0.
C25_FaintedNeverActs ==
    [][finished = "None" =>
         /\ get_active(last_side').hp > 0
         /\ get_active(opponent(last_side')).hp > 0
         /\ log'[1].name = get_active(last_side').name
         /\ log'[1].target = get_active(opponent(last_side')).name]_vars

\* C25, its case: a roster has a member at 0 behind its active one, the match
\* goes on, and the member now active has attacked.
C25_Witness ==
    /\ finished = "None"
    /\ Len(team_b) >= 2
    /\ team_b[1].hp = 0
    /\ active_b = 2
    /\ last_side = "team_b"
    /\ log[1].name = team_b[2].name
    /\ team_b[2].hp > 0

\* A combatant without its current health.
but_hp(combatant) == [combatant EXCEPT !.hp = 0]

\* C28: a call changes no field of any combatant other than the health of
\* the defender: the attacker's roster is as it was, and in the defender's
\* roster every member but the one that was active is as it was, and that
\* one is as it was but for its health.
C28_OnlyDefenderHealth ==
    [][LET attacker_side == last_side'
           defender_side == opponent(last_side')
           team_before == team_of(defender_side)
           team_after == IF defender_side = "team_a" THEN team_a' ELSE team_b'
           active_before == active_of(defender_side)
       IN
       /\ attacker_side = "team_a" => team_a' = team_a
       /\ attacker_side = "team_b" => team_b' = team_b
       /\ Len(team_after) = Len(team_before)
       /\ \A i \in 1..Len(team_before) :
            IF i = active_before
            THEN but_hp(team_after[i]) = but_hp(team_before[i])
            ELSE team_after[i] = team_before[i]]_vars

\* C28, its case: a hit has lowered the health of the defender, the second
\* member of its roster, and of nobody else.
C28_Witness ==
    /\ last_side = "team_a"
    /\ Len(team_b) >= 2
    /\ active_b = 2
    /\ team_b[2].hp > 0
    /\ team_b[2].hp < team_b[2].max_hp
    /\ log[1].target = team_b[2].name
    /\ log[1].damage > 0
    /\ team_a[active_a].hp = team_a[active_a].max_hp

\* C40: attack_turn returns game over exactly when, after the call, every
\* member of the roster it attacked has health 0; and in every state the
\* members of a roster before its active index have health 0 and the members
\* after it have the health they started with.
C40_OverIffAllFainted ==
    /\ last_side # "None" =>
          (ret.over <=> all_fainted(team_of(opponent(last_side))))
    /\ \A side \in Sides :
          \A i \in 1..Len(team_of(side)) :
              /\ i < active_of(side) => team_of(side)[i].hp = 0
              /\ i > active_of(side) =>
                    team_of(side)[i].hp = team_of(side)[i].max_hp

\* C40, its case: a roster of two has lost its first member and fights on
\* with the second, and the last call did not end the match.
C40_Witness ==
    /\ last_side = "team_a"
    /\ ~ret.over
    /\ Len(team_b) = 2
    /\ active_b = 2
    /\ team_b[1].hp = 0
    /\ team_b[2].hp > 0
    /\ Len(team_a) = 2
    /\ active_a = 1

-----------------------------------------------------------------------------
(* Properties of the damage *)

\* Fractions n/d, d > 0, not reduced.
Q(n, d) == [n |-> n, d |-> d]
QMul(x, y) == [n |-> x.n * y.n, d |-> x.d * y.d]
QAdd(x, k) == [n |-> x.n + k * x.d, d |-> x.d]
QLeq(x, y) == x.n * y.d <= y.n * x.d
QEq(x, y) == x.n * y.d = y.n * x.d
\* k = floor(x)
IsFloor(k, x) == k * x.d <= x.n /\ x.n < (k + 1) * x.d

\* ((2*level/5 + 2) * power * (attack/defense) / 50 + 2) * variance * type_multiplier
stated_damage(level, power, attack, defense, variance, type_multiplier) ==
    QMul(QMul(QAdd(QMul(QMul(QMul(QAdd(Q(2 * level, 5), 2),
                                   Q(power, 1)),
                              Q(attack, defense)),
                         Q(1, 50)),
                    2),
              Q(variance, 100)),
         Q(type_multiplier.num, type_multiplier.den))

\* C13: the damage of a hit is the floor of the stated formula on the
\* attacker's level and attack, the defender's defense and the power of the
\* move, for one of the variances; and for level 50, power 40, attack 100,
\* defense 50, multiplier 1.0 the formula at variance 1.0 has floor 37, which
\* is the most such a hit deals.
C13_DamageFormula ==
    last_side = "team_a" =>
        LET attacker == team_a[1]
            defender == team_b[1]
            move == attacker.moves[1]
            m == get_type_effectiveness(move.type, defender.types)
            scenario == /\ attacker.level = 50 /\ move.power = 40
                        /\ attacker.attack = 100 /\ defender.defense = 50
                        /\ m.num = m.den
        IN
        /\ \E variance \in Variances :
             IsFloor(log[1].damage,
                     stated_damage(attacker.level, move.power, attacker.attack,
                                   defender.defense, variance, m))
        /\ scenario =>
             /\ IsFloor(37, stated_damage(50, 40, 100, 50, 100, One))
             /\ damage_of(50, 40, 100, 50, 100, One) = 37
             /\ log[1].damage \in {damage_of(50, 40, 100, 50, variance, One) :
                                       variance \in Variances}

\* C13, its case: the hit of the scenario has dealt 37.
C13_Witness ==
    /\ last_side = "team_a"
    /\ team_a[1].level = 50 /\ team_a[1].moves[1].power = 40
    /\ team_a[1].attack = 100 /\ team_b[1].defense = 50
    /\ team_a[1].moves[1].type = "normal" /\ team_b[1].types = <<"normal">>
    /\ log[1].damage = 37
    /\ team_b[1].hp = 3

\* The multipliers get_type_effectiveness can return.
Multipliers ==
    {Zero, Halve(Halve(One)), Halve(One), One, Double(One), Double(Double(One))}

\* C14: the damage of a hit is never negative, and with everything else as in
\* the hit, a larger power, a larger attack or a larger type multiplier never
\* gives a smaller damage.
C14_DamageMonotone ==
    last_side = "team_a" =>
        LET attacker == team_a[1]
            defender == team_b[1]
            move == attacker.moves[1]
            m == get_type_effectiveness(move.type, defender.types)
            dmg(power, attack_stat, mult, variance) ==
                damage_of(attacker.level, power, attack_stat, defender.defense,
                          variance, mult)
        IN
        /\ log[1].damage >= 0
        /\ \A variance \in Variances :
             /\ dmg(move.power, attacker.attack, m, variance) >= 0
             /\ \A power \in DamagePowers :
                  power >= move.power =>
                      dmg(power, attacker.attack, m, variance)
                          >= dmg(move.power, attacker.attack, m, variance)
             /\ \A attack_stat \in DamageAttacks :
                  attack_stat >= attacker.attack =>
                      dmg(move.power, attack_stat, m, variance)
                          >= dmg(move.power, attacker.attack, m, variance)
             /\ \A mult \in Multipliers :
                  QLeq(Q(m.num, m.den), Q(mult.num, mult.den)) =>
                      dmg(move.power, attacker.attack, mult, variance)
                          >= dmg(move.power, attacker.attack, m, variance)

\* C14, its case: a hit whose damage is positive and would be strictly larger
\* with more power, with more attack and with a larger multiplier.
C14_Witness ==
    /\ last_side = "team_a"
    /\ log[1].damage > 0
    /\ LET attacker == team_a[1]
           defender == team_b[1]
           move == attacker.moves[1]
           m == get_type_effectiveness(move.type, defender.types)
       IN
       /\ \E power \in DamagePowers :
            damage_of(attacker.level, power, attacker.attack, defender.defense,
                      100, m) > log[1].damage
       /\ \E attack_stat \in DamageAttacks :
            damage_of(attacker.level, move.power, attack_stat, defender.defense,
                      100, m) > log[1].damage
       /\ \E mult \in Multipliers :
            damage_of(attacker.level, move.power, attacker.attack,
                      defender.defense, 100, mult) > log[1].damage

Notes == {"super effective", "not very effective", "no effect"}

\* C29: the log of a call starts with the attack entry (attacker, move,
\* defender, damage); the entry after it is the "super effective" note when
\* the multiplier is above 1, the "not very effective" note when it is 0.5
\* and the "no effect" note when it is 0; there is no note when it is 1; and
\* a faint entry comes after the attack entry and the note.
C29_LogOrder ==
    last_side = "team_a" =>
        LET attacker == team_a[1]
            defender == team_b[1]
            move == attacker.moves[1]
            m == get_type_effectiveness(move.type, defender.types)
            notes == {i \in 1..Len(log) : log[i].kind \in Notes}
            faints == {i \in 1..Len(log) : log[i].kind = "fainted"}
        IN
        /\ log[1].kind = "attack"
        /\ log[1].name = attacker.name
        /\ log[1].move = move.name
        /\ log[1].target = defender.name
        /\ \E variance \in Variances :
             log[1].damage = damage_of(attacker.level, move.power,
                                       attacker.attack, defender.defense,
                                       variance, m)
        /\ notes \subseteq {2}
        /\ QLeq(Q(m.num, m.den), Q(1, 1)) \/
               (notes = {2} /\ log[2].kind = "super effective")
        /\ ~QEq(Q(m.num, m.den), Q(1, 2)) \/
               (notes = {2} /\ log[2].kind = "not very effective")
        /\ m.num # 0 \/ (notes = {2} /\ log[2].kind = "no effect")
        /\ ~QEq(Q(m.num, m.den), Q(1, 1)) \/ notes = {}
        /\ \A i \in faints : i > 1 /\ \A j \in notes : j < i

\* C29, its case: a hit that was not very effective made the defender faint:
\* attack entry, note, faint entry.
C29_Witness ==
    /\ last_side = "team_a"
    /\ Len(log) = 3
    /\ log[1].kind = "attack"
    /\ log[2].kind = "not very effective"
    /\ log[3].kind = "fainted"
    /\ get_type_effectiveness(team_a[1].moves[1].type, team_b[1].types)
           = Halve(One)

-----------------------------------------------------------------------------
(* Properties of the type effectiveness *)

\* What one defender type does to an attack of a type.
factor(attack_type, defender_type) ==
    IF attack_type \in DOMAIN no_effect
       /\ defender_type \in no_effect[attack_type] THEN Q(0, 1)
    ELSE IF attack_type \in DOMAIN super_effective
       /\ defender_type \in super_effective[attack_type] THEN Q(2, 1)
    ELSE IF attack_type \in DOMAIN not_effective
       /\ defender_type \in not_effective[attack_type] THEN Q(1, 2)
    ELSE Q(1, 1)

product_of_factors(attack_type, defender_types) ==
    IF Len(defender_types) = 1
    THEN factor(attack_type, defender_types[1])
    ELSE QMul(factor(attack_type, defender_types[1]),
              factor(attack_type, defender_types[2]))


\* C15: for every attacking type and every defender of one or two types the
\* effectiveness is one of 0, 0.25, 0.5, 1, 2, 4 and is the product of the
\* factors of the defender's types.
C15_ProductOfFactors ==
    eff.done =>
        /\ \E allowed \in {Q(0, 1), Q(1, 4), Q(1, 2), Q(1, 1), Q(2, 1), Q(4, 1)} :
             /\ eff.result.num = allowed.n
             /\ eff.result.den = allowed.d
        /\ QEq(Q(eff.result.num, eff.result.den),
               product_of_factors(eff.attack_type, eff.defender_types))

\* C15, its case: a call on a defender of two types that returned 4.
C15_Witness ==
    /\ eff.done
    /\ Len(eff.defender_types) = 2
    /\ eff.defender_types[1] # eff.defender_types[2]
    /\ eff.result = Double(Double(One))

\* C16: an attack that one of the defender's types nullifies has effectiveness
\* 0, whatever the other type is and in whichever order the two are given.
C16_ImmunityWins ==
    (/\ eff.done
     /\ \E i \in 1..Len(eff.defender_types) :
          /\ eff.attack_type \in DOMAIN no_effect
          /\ eff.defender_types[i] \in no_effect[eff.attack_type])
    => eff.result = Zero

\* C16, its case: a call that returned 0 for a defender whose first type alone
\* would have doubled the attack and whose second type nullifies it.
C16_Witness ==
    /\ eff.done
    /\ Len(eff.defender_types) = 2
    /\ eff.attack_type \in DOMAIN super_effective
    /\ eff.defender_types[1] \in super_effective[eff.attack_type]
    /\ eff.attack_type \in DOMAIN no_effect
    /\ eff.defender_types[2] \in no_effect[eff.attack_type]
    /\ eff.result = Zero

\* The tables that hold the pair (attacking type, defending type).
tables_with(attack_type, defender_type) ==
    {name \in {"super_effective", "not_effective", "no_effect"} :
        LET table == CASE name = "super_effective" -> super_effective
                       [] name = "not_effective" -> not_effective
                       [] name = "no_effect" -> no_effect
        IN attack_type \in DOMAIN table /\ defender_type \in table[attack_type]}

\* C30: the three tables are pairwise disjoint: the attacking type of a call
\* and a type of its defender are a pair of at most one table.
C30_TablesDisjoint ==
    \A i \in 1..Len(eff.defender_types) :
        Cardinality(tables_with(eff.attack_type, eff.defender_types[i])) <= 1

\* C30, its case: a call for an attacking type that has an entry in each of
\* the three tables, on a defender with one type out of each of two of them.
C30_Witness ==
    /\ eff.done
    /\ eff.attack_type \in DOMAIN super_effective
    /\ eff.attack_type \in DOMAIN not_effective
    /\ eff.attack_type \in DOMAIN no_effect
    /\ Len(eff.defender_types) = 2
    /\ tables_with(eff.attack_type, eff.defender_types[1]) = {"super_effective"}
    /\ tables_with(eff.attack_type, eff.defender_types[2]) = {"not_effective"}

-----------------------------------------------------------------------------
(* helper/poke_api.py: get_pokemon_data on what the API answers for a        *)
(* creature, then scale_stats on its result.                                 *)

\* data['moves'][:20]
MovesChecked == 20

\* if len(moves) >= 4: break
MoveLimit == 4

\* The longest list of moves the API answers with, but for LongLists.
MaxApiMoves == 4

\* {'name': 'Tackle', 'power': 40, 'type': 'normal'}
Tackle == Move("Tackle", 40, "normal")

\* What the request of one move's url gives: the status of the response
\* (0: the request raised), and the name, power (0: null) and type of the move.
ApiMove(status, name, power, type) ==
    [status |-> status, name |-> name, power |-> power, type |-> type]

ApiMoves ==
    {ApiMove(200, "scratch", 40, "normal"),
     ApiMove(200, "growl", 0, "normal"),
     ApiMove(404, "ember", 40, "fire"),
     ApiMove(0, "cut", 50, "normal")}

RECURSIVE Lists(_, _)
Lists(S, n) ==
    IF n = 0 THEN {<<>>}
    ELSE Lists(S, n - 1)
             \cup {Append(l, x) : l \in {k \in Lists(S, n - 1) : Len(k) = n - 1},
                                  x \in S}

\* Lists longer than the 20 entries looked at: a damaging move in the last
\* place looked at, and one just behind it.
LongLists ==
    {[i \in 1..(MovesChecked + 1) |->
         IF i = at THEN ApiMove(200, "scratch", 40, "normal")
                   ELSE ApiMove(200, "growl", 0, "normal")] :
       at \in {MovesChecked, MovesChecked + 1}}

ApiMoveLists == Lists(ApiMoves, MaxApiMoves) \cup LongLists

\* move_info['name'].replace('-', ' ').title()
title(name) ==
    CASE name = "scratch" -> "Scratch"
      [] name = "growl" -> "Growl"
      [] name = "ember" -> "Ember"
      [] name = "cut" -> "Cut"

\* data['name'].capitalize()
capitalize(name) == CASE name = "charmander" -> "Charmander"

\* seq[:n]
Take(seq, n) == SubSeq(seq, 1, IF Len(seq) < n THEN Len(seq) ELSE n)

\* The loop over data['moves'][:20], from the i-th entry on: the moves
\* collected, or raised when a request raised.
RECURSIVE move_loop(_, _, _)
move_loop(entries, i, moves) ==
    IF i > Len(entries) THEN [raised |-> FALSE, moves |-> moves]
    ELSE LET move_info == entries[i] IN
         IF move_info.status = 0 THEN [raised |-> TRUE, moves |-> moves]
         ELSE IF move_info.status = 200 /\ move_info.power # 0
         THEN LET more == Append(moves, Move(title(move_info.name),
                                             move_info.power, move_info.type))
              IN IF Len(more) >= MoveLimit
                 THEN [raised |-> FALSE, moves |-> more]
                 ELSE move_loop(entries, i + 1, more)
         ELSE move_loop(entries, i + 1, moves)

\* A slip: no default, the list stays empty.
or_default_empty(moves) == moves

\* if not moves: moves = [Tackle]
or_default(moves) == IF moves = <<>> THEN <<Tackle>> ELSE moves

\* int(pokemon_data['hp'] * multiplier) + (level * 2), multiplier = level / 50.0
scaled_hp(base_hp, level) == int_of(base_hp * level, 50) + level * 2

\* scale_stats(pokemon_data, level): a new dictionary.
scale_stats(pokemon_data, level) ==
    [name |-> pokemon_data.name,
     level |-> level,
     hp |-> scaled_hp(pokemon_data.hp, level),
     max_hp |-> scaled_hp(pokemon_data.hp, level),
     attack |-> int_of(pokemon_data.attack * level, 50),
     defense |-> int_of(pokemon_data.defense * level, 50),
     speed |-> int_of(pokemon_data.speed * level, 50),
     types |-> pokemon_data.types,
     moves |-> pokemon_data.moves]

\* The answer of the API for a creature: its base stats and its moves.
Data(name, hp, atk, defense, speed, types, moves) ==
    [name |-> name, hp |-> hp, attack |-> atk, defense |-> defense,
     speed |-> speed, types |-> types, moves |-> moves]

\* The levels of battle (40, 50, 60) and accept (50), and the level of Pool.
Levels == {3, 40, 50, 60}

InitFetch ==
    /\ bot_idle
    /\ commands_idle
    /\ eff_idle
    /\ mode = "pve"
    /\ new_match(Roster(1, 1), Roster(2, 1))
    /\ heap = <<>>
    /\ games = [slot \in Slots |-> NoGame]
    /\ rng = 0
    /\ \E moves \in ApiMoveLists :
         fetched = [NoFetch EXCEPT
                      !.data = Data("charmander", 39, 52, 43, 65, <<"fire">>,
                                    moves)]

\* get_pokemon_data(pokemon_name), the response being 200: the pokemon
\* dictionary, or None when a request raised.
get_pokemon_data ==
    /\ fetched.stage = "idle"
    /\ LET data == fetched.data
           looped == move_loop(Take(data.moves, MovesChecked), 1, <<>>)
       IN
       fetched' =
           IF looped.raised THEN [fetched EXCEPT !.stage = "None"]
           ELSE [fetched EXCEPT
                   !.stage = "fetched",
                   !.pokemon =
                       [name |-> capitalize(data.name), level |-> 1, hp |-> data.hp,
                        max_hp |-> data.hp, attack |-> data.attack,
                        defense |-> data.defense, speed |-> data.speed,
                        types |-> data.types,
                        moves |-> or_default(looped.moves)]]
    /\ UNCHANGED <<match_vars, bot_vars, eff, command_vars, heap, games, rng>>

\* user_poke = scale_stats(user_base, user_lvl)
scale_fetched ==
    /\ fetched.stage = "fetched"
    /\ \E level \in Levels :
         fetched' = [fetched EXCEPT
                       !.stage = "scaled",
                       !.scaled = scale_stats(fetched.pokemon, level)]
    /\ UNCHANGED <<match_vars, bot_vars, eff, command_vars, heap, games, rng>>

NextFetch == get_pokemon_data \/ scale_fetched

SpecFetch == InitFetch /\ [][NextFetch]_vars

-----------------------------------------------------------------------------
(* Two matches in one process.  A dictionary is an entry of heap and is     *)
(* referred to by its place in it; a roster is a list of such references.   *)
(* Each match is built by scale_stats from two of the fetched creatures, at *)
(* the level of Pool, and played by the side whose turn it is.  The draws   *)
(* of random.choice and random.uniform come from the one generator of       *)
(* module random, whose state is its place in the stream of its values.     *)

\* What get_pokemon_data returned for two creatures.
Fetched ==
    <<[name |-> "Charmander", level |-> 1, hp |-> 39, max_hp |-> 39,
       attack |-> 52, defense |-> 43, speed |-> 65, types |-> <<"fire">>,
       moves |-> <<Move("Scratch", 40, "normal"), Move("Ember", 40, "fire")>>],
      [name |-> "Squirtle", level |-> 1, hp |-> 44, max_hp |-> 44,
       attack |-> 48, defense |-> 65, speed |-> 43, types |-> <<"water">>,
       moves |-> <<Move("Tackle", 40, "normal"),
                   Move("Water Gun", 40, "water")>>]>>

\* The values the generator gives, as percentages, over and over.
RandomStream == <<100, 85>>

advanced(r) == (r + 1) % Len(RandomStream)

\* A slip: scale_stats writes into the dictionary it was given.
copy_in_place(h, ref, value) ==
    [heap |-> [h EXCEPT ![ref] = value], ref |-> ref]

\* new_poke = pokemon_data.copy(): a new dictionary, returned once filled in.
copy_of(h, ref, value) ==
    [heap |-> Append(h, value), ref |-> Len(h) + 1]

\* The roster behind a list of references.
deref(h, refs) == [i \in 1..Len(refs) |-> h[refs[i]]]

\* A match of games as the record attack_turn works on.
view(h, game) ==
    [team_a |-> deref(h, game.team_a), team_b |-> deref(h, game.team_b),
     active_a |-> game.active_a, active_b |-> game.active_b,
     p1_user |-> "None", p2_user |-> "None", turn |-> game.turn,
     log |-> game.log, ret |-> Returned(game.over, "None"),
     last_side |-> "None", finished |-> "None"]

InitTwo ==
    /\ bot_idle
    /\ commands_idle
    /\ eff_idle
    /\ mode = "pve"
    /\ new_match(Roster(1, 1), Roster(2, 1))
    /\ fetched = NoFetch
    /\ heap = Fetched
    /\ games = [slot \in Slots |-> NoGame]
    /\ rng \in 0..(Len(RandomStream) - 1)

\* battle: scale_stats of the two fetched creatures and
\* PokemonBattle([user_poke], [cpu_poke], mode="pve").  (The matches are
\* numbered in the order they are built in.)
battle(slot, user_base, cpu_base) ==
    /\ ~games[slot].built
    /\ \A earlier \in Slots : earlier < slot => games[earlier].built
    /\ LET user == copy_of(heap, user_base, scale_stats(heap[user_base], 3))
           cpu == copy_of(user.heap, cpu_base,
                          scale_stats(user.heap[cpu_base], 3))
       IN
       /\ heap' = cpu.heap
       /\ games' = [games EXCEPT ![slot] =
              [built |-> TRUE, team_a |-> <<user.ref>>, team_b |-> <<cpu.ref>>,
               active_a |-> 1, active_b |-> 1,
               turn |-> first_turn(cpu.heap[user.ref].speed,
                                   cpu.heap[cpu.ref].speed),
               log |-> <<>>, over |-> FALSE]]
    /\ UNCHANGED <<match_vars, bot_vars, eff, command_vars, fetched, rng>>

\* The draws of one call of attack_turn from the generator in state r:
\* random.choice when the index selects no move, then random.uniform.
drawn(available_moves, move_index, r) ==
    LET indexed == move_index # <<>> /\ 0 <= move_index[1]
                       /\ move_index[1] < Len(available_moves)
        r_uniform == IF indexed THEN r ELSE advanced(r)
    IN
    [move |-> IF indexed THEN available_moves[move_index[1] + 1]
              ELSE available_moves[(RandomStream[r + 1] % Len(available_moves))
                                       + 1],
     variance |-> RandomStream[r_uniform + 1],
     rng |-> advanced(r_uniform)]

\* The match after game.attack_turn(game.turn, move_index) with the
\* generator in state r.
outcome(h, game, move_index, r) ==
    LET g == view(h, game)
        attacker == IF game.turn = "team_a" THEN g.team_a[g.active_a]
                                            ELSE g.team_b[g.active_b]
        draws == drawn(attacker.moves, move_index, r)
    IN resolve(g, game.turn, draws.move, draws.variance)

\* game.attack_turn(game.turn, move_index) on the match of a slot: the
\* defender's dictionary gets its new hp, the object its new fields.
attack_in(slot, move_index) ==
    /\ games[slot].built
    /\ ~games[slot].over
    /\ \E game \in {games[slot]} :
       \E after \in {outcome(heap, game, move_index, rng)} :
         LET attacker_ref == IF game.turn = "team_a"
                             THEN game.team_a[game.active_a]
                             ELSE game.team_b[game.active_b]
             defender_ref == IF game.turn = "team_a"
                             THEN game.team_b[game.active_b]
                             ELSE game.team_a[game.active_a]
             defender_after == IF game.turn = "team_a"
                               THEN after.team_b[game.active_b]
                               ELSE after.team_a[game.active_a]
         IN
         /\ heap' = [heap EXCEPT ![defender_ref].hp = defender_after.hp]
         /\ games' = [games EXCEPT ![slot] =
                [game EXCEPT !.active_a = after.active_a,
                             !.active_b = after.active_b,
                             !.turn = after.turn,
                             !.log = after.log,
                             !.over = after.ret.over]]
         /\ rng' = drawn(heap[attacker_ref].moves, move_index, rng).rng
    /\ UNCHANGED <<match_vars, bot_vars, eff, command_vars, fetched>>

NextTwo ==
    \/ \E slot \in Slots, user_base \in 1..Len(Fetched),
          cpu_base \in 1..Len(Fetched) :
            user_base # cpu_base /\ battle(slot, user_base, cpu_base)
    \/ \E slot \in Slots, move_index \in {<<0>>, <<>>} :
          attack_in(slot, move_index)

SpecTwo == InitTwo /\ [][NextTwo]_vars

-----------------------------------------------------------------------------
(* The constructor of PokemonBattle on any two rosters: the rosters of the   *)
(* engine, the same with every member at health 0, and the empty roster.     *)
(* The constructed match is then played by the side whose turn it is.        *)

knocked_out(team) == [i \in 1..Len(team) |-> [team[i] EXCEPT !.hp = 0]]

NewRosters == {<<>>} \cup Rosters \cup {knocked_out(team) : team \in Rosters}

\* No PokemonBattle object exists.
InitNew ==
    /\ bot_idle
    /\ eff_idle
    /\ others_idle
    /\ mode = "pve"
    /\ team_a = <<>>
    /\ team_b = <<>>
    /\ active_a = 1
    /\ active_b = 1
    /\ p1_user = "None"
    /\ p2_user = "None"
    /\ turn = "None"
    /\ log = <<>>
    /\ ret = Returned(FALSE, "None")
    /\ last_side = "None"
    /\ finished = "None"

\* The fields __init__ assigns.
constructed(a, b) ==
    [team_a |-> a, team_b |-> b, active_a |-> 1, active_b |-> 1,
     p1_user |-> "None", p2_user |-> "None",
     turn |-> first_turn(a[1].speed, b[1].speed), log |-> <<>>,
     ret |-> Returned(FALSE, "None"), last_side |-> "None",
     finished |-> "None"]

\* PokemonBattle(team_a, team_b): team_a[0] and team_b[0] raise IndexError
\* on an empty list and no object is made; nothing else is looked at.
PokemonBattle(a, b) ==
    /\ turn = "None"
    /\ IF a = <<>> \/ b = <<>>
       THEN /\ ret' = [over |-> FALSE, winner |-> "None",
                       error |-> "IndexError"]
            /\ UNCHANGED <<team_a, team_b, active_a, active_b, p1_user,
                           p2_user, turn, log, last_side, finished>>
       ELSE become(constructed(a, b))
    /\ UNCHANGED <<mode, bot_vars, eff, other_vars>>

NextNew ==
    \/ \E a \in NewRosters, b \in NewRosters : PokemonBattle(a, b)
    \/ turn # "None" /\ attack_turn(turn, <<0>>)

SpecNew == InitNew /\ [][NextNew]_vars

-----------------------------------------------------------------------------
(* The engine on combatants with the lowest stats scale_stats gives: at the  *)
(* level of the pool a base stat below 17 scales to 0.  Chansey (base attack *)
(* and defense 5) joins the pool; each side plays its turns.                 *)

Chansey ==
    scale_stats(Data("Chansey", 250, 5, 5, 50, <<"normal">>,
                     <<Move("Pound", 40, "normal")>>),
                Charmander.level)

StatPool == Pool \o <<Chansey>>

StatRosters ==
    {[i \in 1..n |-> StatPool[((k + i - 2) % Len(StatPool)) + 1]] :
        k \in 1..Len(StatPool), n \in 1..MaxRoster}

InitStat ==
    /\ bot_idle
    /\ eff_idle
    /\ others_idle
    /\ mode = "pve"
    /\ \E a \in StatRosters, b \in StatRosters : new_match(a, b)

\* The caller of the engine: the side whose turn it is moves, with an index
\* or without one, as long as no call has returned game over.
NextTurns ==
    \/ \E i \in 0..1 : finished = "None" /\ attack_turn(turn, <<i>>)
    \/ finished = "None" /\ turn = "team_b" /\ cpu_turn

SpecStat == InitStat /\ [][NextTurns]_vars

-----------------------------------------------------------------------------
(* The engine played to the end: the pool with a creature of type normal    *)
(* that has only moves of type normal, as Gastly has only a move of type     *)
(* ghost.  The side whose turn it is always gets to move.                    *)

Rattata ==
    scale_stats(Data("Rattata", 30, 56, 35, 72, <<"normal">>,
                     <<Move("Tackle", 40, "normal")>>),
                Charmander.level)

PlayPool == Pool \o <<Rattata>>

PlayRosters ==
    {[i \in 1..n |-> PlayPool[((k + i - 2) % Len(PlayPool)) + 1]] :
        k \in 1..Len(PlayPool), n \in 1..MaxRoster}

InitPlay ==
    /\ bot_idle
    /\ eff_idle
    /\ others_idle
    /\ mode = "pve"
    /\ \E a \in PlayRosters, b \in PlayRosters : new_match(a, b)

SpecPlay == InitPlay /\ [][NextTurns]_vars /\ WF_vars(NextTurns)

-----------------------------------------------------------------------------
(* The attack command of cogs/pokemon.py on a registered match: a match      *)
(* against the computer as battle leaves it, or a match of two players as    *)
(* accept leaves it.  Both build rosters of one combatant.  The command has  *)
(* no await between its checks and its last send, so it is one step.         *)

MoveNums == 0..5

Reply(to, text) == [to |-> to, text |-> text]

\* The commands' rosters: [user_poke], [cpu_poke] and [p1_poke], [p2_poke].
CmdRosters == {Roster(k, 1) : k \in 1..Len(Pool)}

\* battle: PokemonBattle([user_poke], [cpu_poke], mode="pve"), registered
\* for its author.
after_battle(author, a, b) ==
    /\ mode = "pve"
    /\ new_match(a, b)
    /\ p1_id = "None"
    /\ p2_id = "None"
    /\ active_battles = [u \in Users |-> IF u = author THEN "game" ELSE "None"]

\* accept: PokemonBattle([p1_poke], [p2_poke], mode="pvp"), the ids and the
\* users of the challenger and of the author, registered for both.
after_accept(challenger_id, author, a, b) ==
    /\ mode = "pvp"
    /\ team_a = a
    /\ team_b = b
    /\ active_a = 1
    /\ active_b = 1
    /\ p1_user = challenger_id
    /\ p2_user = author
    /\ turn = first_turn(a[1].speed, b[1].speed)
    /\ log = <<>>
    /\ ret = [over |-> FALSE, winner |-> "None", error |-> "None"]
    /\ last_side = "None"
    /\ finished = "None"
    /\ p1_id = challenger_id
    /\ p2_id = author
    /\ active_battles = [u \in Users |->
                           IF u \in {challenger_id, author} THEN "game"
                                                            ELSE "None"]

InitCmd ==
    /\ reply = NoReply
    /\ cpu_at = NoCpu
    /\ eff_idle
    /\ others_idle
    /\ \E a \in CmdRosters, b \in CmdRosters :
         \/ \E author \in Users : after_battle(author, a, b)
         \/ \E challenger_id \in Users, author \in Users :
              after_accept(challenger_id, author, a, b)

\* A slip: only the check of team_a's turn.
not_your_turn_a_only(t, author, p1) ==
    t = "team_a" /\ author # p1

\* game.turn == "team_a" and ctx.author.id != game.p1_id, or
\* game.turn == "team_b" and ctx.author.id == game.p1_id
not_your_turn(t, author, p1) ==
    \/ t = "team_a" /\ author # p1
    \/ t = "team_b" /\ author = p1

\* A slip: the computer answers whoever's turn it is.
cpu_responds_any_turn(is_over, m, t) ==
    ~is_over /\ m = "pve"

\* A slip: the computer answers when team_a is awaited.
cpu_responds_on_a(is_over, m, t) ==
    ~is_over /\ m = "pve" /\ t = "team_a"

\* not is_over and game.mode == "pve" and game.turn == "team_b"
cpu_responds(is_over, m, t) ==
    ~is_over /\ m = "pve" /\ t = "team_b"

\* A slip: only the author's entry is deleted.
cleaned_up_author_only(author) ==
    [u \in Users |-> IF u = author THEN "None" ELSE active_battles[u]]

\* del self.bot.active_battles[ctx.author.id], and in a match of two players
\* the other player's entry too.
cleaned_up(author) ==
    LET other_id == IF author = p1_id THEN p2_id ELSE p1_id IN
    [u \in Users |->
        IF u = author \/ (mode = "pvp" /\ u = other_id) THEN "None"
        ELSE active_battles[u]]

\* The command returns after a message and touches nothing else.
rejected(author, text) ==
    /\ reply' = Reply(author, text)
    /\ cpu_at' = NoCpu
    /\ UNCHANGED <<match_vars, active_battles, p1_id, p2_id, eff, other_vars>>

\* The end of the command on the match g: the clean-up when the match is
\* over, and the embed.
sent(author, g, cpu) ==
    /\ become(g)
    /\ cpu_at' = cpu
    /\ active_battles' = IF g.ret.over THEN cleaned_up(author)
                                       ELSE active_battles
    /\ reply' = Reply(author, "Battle Log")
    /\ UNCHANGED <<mode, p1_id, p2_id, eff, other_vars>>

\* A slip: one index past the end of the list is let through.
move_missing_past_end(move_index, available_moves) ==
    move_index > Len(available_moves)

\* if move_index >= len(available_moves)
move_missing(move_index, available_moves) ==
    move_index >= Len(available_moves)

attack(author, move_num) ==
    IF active_battles[author] = "None"
    THEN rejected(author, "You aren't in a battle!")
    ELSE IF move_num < 1 \/ move_num > 4
    THEN rejected(author, "Please choose a move number between 1-4!")
    ELSE IF move_missing(move_num - 1, get_active(turn).moves)
    THEN rejected(author, "That move doesn't exist!")
    ELSE IF mode = "pvp" /\ not_your_turn(turn, author, p1_id)
    THEN rejected(author, "It's not your turn!")
    ELSE
    \E move \in choose_move(get_active(turn).moves, <<move_num - 1>>),
       variance \in Variances :
      \E g \in {resolve(Game, turn, move, variance)} :
        IF cpu_responds(g.ret.over, mode, g.turn)
        THEN \E cpu_move \in choose_move(g.team_b[g.active_b].moves, <<>>),
                cpu_variance \in Variances :
               sent(author,
                    resolve(g, "team_b", cpu_move, cpu_variance),
                    [invoked |-> TRUE, turn |-> g.turn, over |-> g.ret.over,
                     finished |-> g.finished])
        ELSE sent(author, g, NoCpu)

NextCmd == \E author \in Users, move_num \in MoveNums : attack(author, move_num)

SpecCmd == InitCmd /\ [][NextCmd]_vars

-----------------------------------------------------------------------------
(* The bot: the commands battle, attack, challenge, accept and flee of       *)
(* cogs/pokemon.py, from any user in any order.  Every command is a task of  *)
(* one event loop: it runs alone from one await to the next, and other       *)
(* commands run while it is suspended.  accept and flee read the bot's       *)
(* dictionaries before an await and write them after it, so each is two      *)
(* steps; battle, challenge and attack touch the dictionaries in one stretch *)
(* without an await and are one step each.  The messages sent are not        *)
(* recorded here.  A user has at most one command suspended, and an object   *)
(* nothing refers to any more is freed, as the interpreter frees it.         *)

\* The users who type commands.
BotUsers == {"u1", "u2"}

\* The rosters battle and accept build, one scaled creature a side.
BotTeamA == {<<Charmander>>}
BotTeamB == {<<Gastly>>}

\* The move numbers typed: the two moves of a creature and one it has not.
BotMoveNums == 1..3

\* A command suspended at an await, with what it has read so far.
Task(cmd, author, game, challenger_id) ==
    [cmd |-> cmd, author |-> author, game |-> game,
     challenger_id |-> challenger_id]

\* The places an entry of active_battles or a suspended command refers to.
referenced(battles, suspended) ==
    {battles[u] : u \in Users} \cup {suspended[u].game : u \in Users}

\* The objects that are still referred to; the others are freed.
collected(objs, battles, suspended) ==
    [r \in Refs |-> IF r \in referenced(battles, suspended) THEN objs[r]
                    ELSE NoObject]

\* The place of a new object: one that holds none.
free_ref == CHOOSE r \in Refs :
               /\ ~objects[r].built
               /\ (r = "g2" => objects["g1"].built)

\* The object g with the fields of the match m.
with_match(g, m) ==
    [built |-> TRUE, mode |-> g.mode, p1_id |-> g.p1_id, p2_id |-> g.p2_id,
     team_a |-> m.team_a, team_b |-> m.team_b, active_a |-> m.active_a,
     active_b |-> m.active_b, p1_user |-> m.p1_user, p2_user |-> m.p2_user,
     turn |-> m.turn, log |-> m.log, ret |-> m.ret,
     last_side |-> m.last_side, finished |-> m.finished]

\* game = PokemonBattle([user_poke], [cpu_poke], mode="pve")
pve_object(a, b) ==
    with_match([mode |-> "pve", p1_id |-> "None", p2_id |-> "None"],
               constructed(a, b))

\* game = PokemonBattle([p1_poke], [p2_poke], mode="pvp"), then
\* game.p1_id = challenger_id, game.p2_id = ctx.author.id and the two users.
pvp_object(a, b, challenger_id, author) ==
    with_match([mode |-> "pvp", p1_id |-> challenger_id, p2_id |-> author],
               [constructed(a, b) EXCEPT !.p1_user = challenger_id,
                                         !.p2_user = author])

\* game.get_active(side) on the object g
active_member(g, side) ==
    IF side = "team_a" THEN g.team_a[g.active_a] ELSE g.team_b[g.active_b]

InitBot ==
    /\ bot_idle
    /\ eff_idle
    /\ others_idle
    /\ mode = "None"
    /\ team_a = <<>>
    /\ team_b = <<>>
    /\ active_a = 1
    /\ active_b = 1
    /\ p1_user = "None"
    /\ p2_user = "None"
    /\ turn = "None"
    /\ log = <<>>
    /\ ret = Returned(FALSE, "None")
    /\ last_side = "None"
    /\ finished = "None"

\* What no command of the bot touches.
bot_rest == <<match_vars, p1_id, p2_id, reply, cpu_at, eff, fetched, heap,
              games, rng>>

\* The command returns after a message and has changed nothing.
returned == raised' = NoError
            /\ UNCHANGED <<active_battles, pending_challenges, objects, tasks,
                           bot_rest>>

\* !battle: the two creatures are fetched and scaled, then the match is made
\* and registered for the author, over whatever entry the author had.  (When
\* a fetch fails the command returns and has changed nothing.)
battle_command(author) ==
    /\ \E r \in Refs : ~objects[r].built
    /\ \E a \in BotTeamA, b \in BotTeamB, ref \in {free_ref} :
         \E battles \in {[active_battles EXCEPT ![author] = ref]} :
           /\ active_battles' = battles
           /\ objects' = collected([objects EXCEPT ![ref] = pve_object(a, b)],
                                   battles, tasks)
    /\ raised' = NoError
    /\ UNCHANGED <<pending_challenges, tasks, bot_rest>>

\* !challenge @opponent: self.bot.pending_challenges[opponent.id] = author
challenge(author, opponent_id) ==
    /\ pending_challenges' = [pending_challenges EXCEPT ![opponent_id] = author]
    /\ raised' = NoError
    /\ UNCHANGED <<active_battles, objects, tasks, bot_rest>>

\* !accept up to its first await: the check of the pending challenge and the
\* read of the challenger's id.
accept(author) ==
    /\ tasks[author] = NoTask
    /\ IF pending_challenges[author] = "None"
       THEN returned
       ELSE /\ tasks' = [tasks EXCEPT ![author] =
                           Task("accept", author, "None",
                                pending_challenges[author])]
            /\ raised' = NoError
            /\ UNCHANGED <<active_battles, pending_challenges, objects,
                           bot_rest>>

\* A slip: the match registered for the author only.
linked_author_only(battles, challenger_id, author, ref) ==
    [battles EXCEPT ![author] = ref]

\* self.bot.active_battles[challenger_id] = game
\* self.bot.active_battles[ctx.author.id] = game
linked(battles, challenger_id, author, ref) ==
    [battles EXCEPT ![challenger_id] = ref, ![author] = ref]

\* !accept after its awaits, when a fetch has failed: it returns.
accept_failed(author) ==
    /\ tasks[author].cmd = "accept"
    /\ tasks' = [tasks EXCEPT ![author] = NoTask]
    /\ raised' = NoError
    /\ UNCHANGED <<active_battles, pending_challenges, objects, bot_rest>>

\* !accept after its awaits: the match is made, registered for both players,
\* and the pending challenge is deleted; del raises KeyError when it is gone.
accept_resumed(author) ==
    /\ tasks[author].cmd = "accept"
    /\ \E r \in Refs : ~objects[r].built
    /\ tasks' = [tasks EXCEPT ![author] = NoTask]
    /\ \E a \in BotTeamA, b \in BotTeamB, ref \in {free_ref} :
         \E battles \in {linked(active_battles, tasks[author].challenger_id,
                                author, ref)} :
           /\ active_battles' = battles
           /\ objects' =
                 collected([objects EXCEPT ![ref] =
                               pvp_object(a, b, tasks[author].challenger_id,
                                          author)],
                           battles, tasks')
    /\ IF pending_challenges[author] = "None"
       THEN /\ raised' = [cmd |-> "accept", author |-> author,
                          error |-> "KeyError"]
            /\ UNCHANGED pending_challenges
       ELSE /\ pending_challenges' =
                  [pending_challenges EXCEPT ![author] = "None"]
            /\ raised' = NoError
    /\ UNCHANGED bot_rest

\* !flee up to its first await: the check of the author's entry and the read
\* of the match.
flee(author) ==
    /\ tasks[author] = NoTask
    /\ IF active_battles[author] = "None"
       THEN returned
       ELSE /\ tasks' = [tasks EXCEPT ![author] =
                           Task("flee", author, active_battles[author],
                                "None")]
            /\ raised' = NoError
            /\ UNCHANGED <<active_battles, pending_challenges, objects,
                           bot_rest>>

\* del self.bot.active_battles[ctx.author.id], and in a match of two players
\* the entry of the other player if there is one.
unlinked(battles, game, author) ==
    LET other_id == IF author = game.p1_id THEN game.p2_id ELSE game.p1_id IN
    [u \in Users |->
        IF u = author \/ (game.mode = "pvp" /\ u = other_id) THEN "None"
        ELSE battles[u]]

\* !flee after its awaits: in a match of two players the entries of both are
\* deleted if they are there; otherwise del of the author's entry, which
\* raises KeyError when it is gone.
flee_resumed(author) ==
    /\ tasks[author].cmd = "flee"
    /\ tasks' = [tasks EXCEPT ![author] = NoTask]
    /\ \E game \in {objects[tasks[author].game]} :
         \E battles \in {unlinked(active_battles, game, author)} :
           /\ active_battles' = battles
           /\ objects' = collected(objects, battles, tasks')
           /\ raised' = IF game.mode # "pvp" /\ active_battles[author] = "None"
                        THEN [cmd |-> "flee", author |-> author,
                              error |-> "KeyError"]
                        ELSE NoError
    /\ UNCHANGED <<pending_challenges, bot_rest>>

\* The end of !attack on the object the author is registered for.
attack_sent(author, game, m) ==
    \E battles \in {IF m.ret.over THEN unlinked(active_battles, game, author)
                                  ELSE active_battles} :
      /\ active_battles' = battles
      /\ objects' = collected([objects EXCEPT ![active_battles[author]] =
                                  with_match(game, m)],
                              battles, tasks)
      /\ raised' = NoError
      /\ UNCHANGED <<pending_challenges, tasks, bot_rest>>

\* !attack <move_num>: the command of the section above, on the object the
\* author is registered for.
attack_command(author, move_num) ==
    IF active_battles[author] = "None"
    THEN returned
    ELSE
    \E game \in {objects[active_battles[author]]} :
      IF \/ move_num < 1
         \/ move_num > 4
         \/ move_missing(move_num - 1, active_member(game, game.turn).moves)
         \/ game.mode = "pvp" /\ not_your_turn(game.turn, author, game.p1_id)
      THEN returned
      ELSE
      \E move \in choose_move(active_member(game, game.turn).moves,
                              <<move_num - 1>>),
         variance \in Variances :
        \E g \in {resolve(game, game.turn, move, variance)} :
          IF cpu_responds(g.ret.over, game.mode, g.turn)
          THEN \E cpu_move \in choose_move(g.team_b[g.active_b].moves, <<>>),
                  cpu_variance \in Variances :
                 attack_sent(author, game,
                             resolve(g, "team_b", cpu_move, cpu_variance))
          ELSE attack_sent(author, game, g)

NextBot ==
    \/ \E author \in BotUsers : battle_command(author)
    \/ \E author \in BotUsers, opponent_id \in BotUsers :
          challenge(author, opponent_id)
    \/ \E author \in BotUsers : accept(author)
    \/ \E author \in BotUsers : accept_failed(author)
    \/ \E author \in BotUsers : accept_resumed(author)
    \/ \E author \in BotUsers : flee(author)
    \/ \E author \in BotUsers : flee_resumed(author)
    \/ \E author \in BotUsers, move_num \in BotMoveNums :
          attack_command(author, move_num)

SpecBot == InitBot /\ [][NextBot]_vars

-----------------------------------------------------------------------------
(* Properties of the attack command *)

\* The fields of the match the players share.
shared_match == <<team_a, team_b, active_a, active_b, turn, log>>

\* The player whose input the match of two players waits for.
awaited == IF turn = "team_a" THEN p1_id ELSE p2_id

\* C19: in a match of two players an attack command of the player the match
\* is not waiting for is answered with a refusal and changes nothing (health,
\* indexes, turn, log, registrations), and a command that changes the match
\* comes from the player the match is waiting for.
C19_OnlyAwaitedResolves ==
    [][mode = "pvp" =>
         LET author == reply'.to IN
         /\ (active_battles[author] # "None" /\ author # awaited) =>
               /\ UNCHANGED <<match_vars, active_battles, p1_id, p2_id>>
               /\ reply'.text \in {"It's not your turn!",
                                    "Please choose a move number between 1-4!",
                                    "That move doesn't exist!"}
         /\ shared_match' # shared_match =>
               /\ active_battles[author] # "None"
               /\ author = awaited
               /\ last_side' = turn]_vars

\* C19, its case: after a turn of the match, the player it is not waiting for
\* has been told that it is not their turn.
C19_Witness ==
    /\ mode = "pvp"
    /\ last_side # "None"
    /\ finished = "None"
    /\ p1_id # p2_id
    /\ reply.to \in {p1_id, p2_id}
    /\ reply.to # awaited
    /\ reply.text = "It's not your turn!"

\* C20: the command calls cpu_turn only on a match against the computer that
\* is not finished and whose turn is team_b's, right after a move of the
\* command itself that did not end the match.
C20_CpuOnlyWhenAwaited ==
    cpu_at.invoked =>
        /\ mode = "pve"
        /\ cpu_at.turn = "team_b"
        /\ ~cpu_at.over
        /\ cpu_at.finished = "None"
        /\ last_side = "team_b"
        /\ reply.text = "Battle Log"

\* C20, its case: the computer has answered a move and the match goes on.
C20_Witness ==
    /\ cpu_at.invoked
    /\ mode = "pve"
    /\ last_side = "team_b"
    /\ finished = "None"
    /\ turn = "team_a"

\* C31: in a match against the computer the attack command resolves the
\* author's move for team_a only, and team_b moves only in the cpu_turn call
\* of the command, also when team_b's combatant is the faster one: every
\* command that changes the match finds team_a awaited, and leaves team_b as
\* the last attacker only through cpu_turn.
C31_HumanOnlySideA ==
    [][(mode = "pve" /\ shared_match' # shared_match) =>
          /\ turn = "team_a"
          /\ (last_side' = "team_b" => cpu_at'.invoked)]_vars

C33_MoveNumberChecked ==
    [][\A author \in Users, move_num \in MoveNums :
         \/ (move_num >= 1 /\ move_num <= 4
                 /\ move_num <= Len(get_active(turn).moves))
         \/ active_battles[author] = "None"
         \/ ~attack(author, move_num)
         \/ /\ UNCHANGED <<match_vars, active_battles, p1_id, p2_id>>
            /\ reply'.text \in {"Please choose a move number between 1-4!",
                                 "That move doesn't exist!"}]_vars

\* C33, its case: in a match under way a move number the attacker does not
\* have has been refused.
C33_Witness ==
    /\ reply.text = "That move doesn't exist!"
    /\ active_battles[reply.to] # "None"
    /\ last_side # "None"
    /\ finished = "None"

\* C34: a turn that ends the match takes the match out of active_battles for
\* the one user of a match against the computer and for both users of a
\* match of two players, and from then on no attack command changes the
\* match.
C34_FinishedIsUnregistered ==
    [][/\ ret'.over => \A u \in Users : active_battles'[u] = "None"
       /\ finished # "None" => UNCHANGED match_vars]_vars

\* C34, its case: a match of two different players has ended, and a player
\* who typed attack after it was told that there is no battle.
C34_Witness ==
    /\ mode = "pvp"
    /\ p1_id # p2_id
    /\ finished # "None"
    /\ \A u \in Users : active_battles[u] = "None"
    /\ reply.to \in {p1_id, p2_id}
    /\ reply.text = "You aren't in a battle!"

-----------------------------------------------------------------------------
(* Properties of the engine on low stats *)

\* C38: attack_turn ends with a damage value for every attacker and defender
\* with attack, defense and speed of 0 or more, a defender of defense 0
\* included: no call ends in an exception, and every call leaves its attack
\* entry, with a damage of 0 or more, in the log.
C38_AlwaysADamage ==
    /\ ret.error = "None"
    /\ last_side # "None" =>
          /\ Len(log) >= 1
          /\ log[1].kind = "attack"
          /\ log[1].damage >= 0

\* C39: when the side whose turn it is keeps moving, every match comes to
\* its end, whatever the rosters, the moves and the draws: a call returns
\* game over at some point.
C39_EveryMatchEnds == <>(finished # "None")

-----------------------------------------------------------------------------
(* Properties of the constructor *)

functional(team) == \E i \in 1..Len(team) : team[i].hp > 0

\* C21: the constructor fails with IncompleteRoster, and makes no match, when
\* a side has no member with health above 0: every match that exists has a
\* member above 0 on each side at its construction, and the only error a
\* construction ends in is IncompleteRoster.
C21_IncompleteRosterRejected ==
    /\ ret.error \in {"None", "IncompleteRoster"}
    /\ (turn # "None" /\ last_side = "None") =>
           functional(team_a) /\ functional(team_b)

\* C22: get_active does not return a fainted combatant when every member of
\* the roster has fainted (it fails with NoCombatantAvailable): in no state
\* with such a roster, the state of the command's own get_active calls for
\* its embed after the last hit among them, is the value of get_active a
\* combatant at health 0.
C22_NoCombatantAvailable ==
    \A s \in Sides :
        all_fainted(team_of(s)) => get_active(s).hp > 0

\* C23: a match of one combatant against one is finished as soon as one of
\* them is at health 0 and stays so: in every state with one of them at 0 the
\* call that brought it there returned game over, its result still stands,
\* and the match is registered for nobody, so that no command reaches it.
C23_OneOnOneEnds ==
    /\ Len(team_a) = 1
    /\ Len(team_b) = 1
    /\ (team_a[1].hp = 0 \/ team_b[1].hp = 0) =>
           /\ finished # "None"
           /\ ret.over
           /\ \A u \in Users : active_battles[u] = "None"

\* C23, its case: a combatant is at 0, the match is finished, and a command
\* sent after that was answered with a refusal.
C23_Witness ==
    /\ team_b[1].hp = 0
    /\ team_a[1].hp > 0
    /\ finished = "team_a"
    /\ reply.text = "You aren't in a battle!"

-----------------------------------------------------------------------------
(* Properties of the fetch *)

\* The damaging moves among the entries looked at.
damaging(entries) ==
    {i \in 1..Len(Take(entries, MovesChecked)) :
        entries[i].status = 200 /\ entries[i].power # 0}

-----------------------------------------------------------------------------
(* Properties of two matches *)

\* C24: two matches share no mutable state: a step in which the object of a
\* match is left alone (it was not built and did not resolve a turn in that
\* step) leaves its rosters with every health value, its active indexes, its
\* turn and its log as they were, whatever happened to the other match and
\* whichever fetched creatures the two were built from.
C24_MatchesIndependent ==
    [][\A slot \in Slots :
         games'[slot] = games[slot] =>
             view(heap', games'[slot]) = view(heap, games[slot])]_vars

\* C24, its case: both matches were built from the same two fetched
\* creatures; one has had a turn and its defender has lost health, the other
\* has had none and both its combatants are at full health.
C24_Witness ==
    /\ games[1].built
    /\ games[2].built
    /\ games[1].log # <<>>
    /\ games[2].log = <<>>
    /\ \E i \in {1} :
         /\ heap[games[1].team_a[i]].name = heap[games[2].team_a[i]].name
         /\ heap[games[1].team_b[i]].name = heap[games[2].team_b[i]].name
         /\ heap[games[1].team_b[i]].hp < heap[games[1].team_b[i]].max_hp
         /\ heap[games[2].team_a[i]].hp = heap[games[2].team_a[i]].max_hp
         /\ heap[games[2].team_b[i]].hp = heap[games[2].team_b[i]].max_hp
    /\ games[1].log[1].target = heap[games[1].team_b[1]].name

\* C27: a call of attack_turn depends on nothing the matches share: the
\* match after game.attack_turn(game.turn, 0) is the same whatever state the
\* generator of module random, which every match of the process draws from,
\* is in.
C27_NoSharedRandomness ==
    \A slot \in Slots :
        (games[slot].built /\ ~games[slot].over) =>
            \A r \in 0..(Len(RandomStream) - 1) :
                outcome(heap, games[slot], <<0>>, r)
                    = outcome(heap, games[slot], <<0>>, rng)

-----------------------------------------------------------------------------
(* Properties of the bot *)

\* C35: when accept has run to its end, the entries of the challenger and of
\* the accepter refer to one and the same match, a match of two players with
\* the challenger as player 1 (team_a) and the accepter as player 2 (team_b),
\* and the accepter has no pending challenge any more; an accept of a user
\* without a pending challenge makes no match and registers nothing.
C35_AcceptLinksBoth ==
    [][\A author \in BotUsers :
         /\ \/ ~accept_resumed(author)
            \/ LET ref == active_battles'[author] IN
               /\ ref # "None"
               /\ active_battles'[tasks[author].challenger_id] = ref
               /\ ~objects[ref].built
               /\ objects'[ref].mode = "pvp"
               /\ objects'[ref].p1_id = tasks[author].challenger_id
               /\ objects'[ref].p2_id = author
               /\ pending_challenges'[author] = "None"
         /\ \/ pending_challenges[author] # "None"
            \/ ~accept(author)
            \/ UNCHANGED <<objects, active_battles, tasks>>]_vars

\* C35, its case: two different users share a new match of two players, the
\* accepter has no pending challenge, and nobody has moved yet.
C35_Witness ==
    \E ref \in Refs :
        /\ objects[ref].mode = "pvp"
        /\ objects[ref].p1_id # objects[ref].p2_id
        /\ active_battles[objects[ref].p1_id] = ref
        /\ active_battles[objects[ref].p2_id] = ref
        /\ pending_challenges[objects[ref].p2_id] = "None"
        /\ objects[ref].last_side = "None"

\* C36: whatever the commands and their order, a user whose entry is a match
\* of two players is one of its two players, and the entry of the other
\* player is the same match.
C36_SharedByBothOrNeither ==
    \A u \in Users :
        LET ref == active_battles[u] IN
        (ref # "None" /\ objects[ref].mode = "pvp") =>
            /\ u \in {objects[ref].p1_id, objects[ref].p2_id}
            /\ active_battles[objects[ref].p1_id] = ref
            /\ active_battles[objects[ref].p2_id] = ref

\* C37: flee and accept run to their end without an exception whatever runs
\* while they are suspended, and when flee has run to its end its author has
\* no entry in active_battles.
C37_NoKeyError ==
    [][\A author \in BotUsers :
         /\ \/ ~flee_resumed(author)
            \/ /\ raised'.error = "None"
               /\ active_battles'[author] = "None"
         /\ \/ ~accept_resumed(author)
            \/ raised'.error = "None"]_vars

====
